---- MODULE Spec2Model ----
(***************************************************************************)
(* Model of utils.py (FIFAProphet): the data loaders get_matches,          *)
(* get_winners, get_team_stats, the rename helper apply_renames, and the   *)
(* sample helpers extract_samples and split_samples.                       *)
(*                                                                         *)
(* Tables (pandas DataFrames) are sequences of records, one record per     *)
(* row in row order; the field `id` is the row's index label.  A table     *)
(* indexed by a unique key (the team stats) is a function from the key.    *)
(* Float cells are fractions [num, den]; den = 0 is the missing value NaN  *)
(* (num = 0) or an infinity (num # 0), which is what a pandas division by  *)
(* zero produces.                                                          *)
(***************************************************************************)
EXTENDS Integers, Sequences, FiniteSets, TLC

VARIABLES
    team_renames_file,  \* lines of TEAM_RENAMES_FILE, each <<raw, canonical>>
    raw_matches_file,   \* rows of RAW_MATCHES_FILE
    raw_winners_file,   \* rows of RAW_WINNERS_FILE
    call,               \* the last completed call: its name and arguments
    result,             \* what that call returned
    inputs, outputs, percent,               \* arguments of split_samples
    i,                                      \* split_samples: rows consumed
    inputs1, outputs1, inputs2, outputs2,   \* split_samples: the four lists
    draws,                                  \* history of the random() values
    column                                  \* argument of apply_renames

files == <<team_renames_file, raw_matches_file, raw_winners_file>>
split == <<inputs, outputs, percent, i, inputs1, outputs1, inputs2, outputs2, draws>>
vars  == <<files, call, result, split, column>>

----------------------------------------------------------------------------
(* Bounds of the model *)

MaxRows    == 2   \* rows of the raw matches table
MaxLines   == 2   \* lines of the renames file
MaxColumn  == 2   \* length of a column handed to apply_renames
MaxLen     == 3   \* length of the sample lists handed to split_samples
Resolution == 2   \* random() returns k/Resolution, k in 0..Resolution-1

RawNames  == {"A", "B"}
Canonical == {"A", "B", "X"}
Scores    == {0, 1}
Years     == {2000, 2001}
IdGaps    == {1, 2}
Results   == {<<1, 0>>, <<0, 1>>, <<1, 1>>}

SeqsUpTo(S, n) == UNION {[1..k -> S] : k \in 0..n}

Max(S) == CHOOSE m \in S : \A n \in S : n <= m

----------------------------------------------------------------------------
(* Floats *)

Float(n)  == [num |-> n, den |-> 1]
NaN       == [num |-> 0, den |-> 0]
Div(a, b) == [num |-> a.num * b.den, den |-> a.den * b.num]
Mul(a, b) == [num |-> a.num * b.num, den |-> a.den * b.den]

----------------------------------------------------------------------------
(* apply_renames *)

\* dict(l.strip().split(',') for l in lines): a later line replaces an
\* earlier one with the same key.
renames ==
    LET lines == team_renames_file
        keys  == {lines[k][1] : k \in 1..Len(lines)}
    IN  [key \in keys |->
            lines[Max({k \in 1..Len(lines) : lines[k][1] = key})][2]]

\* mutant: the lookup applied to its own result
renamer_transitive(team) ==
    LET once == IF team \in DOMAIN renames THEN renames[team] ELSE team
    IN  IF once \in DOMAIN renames THEN renames[once] ELSE once

renamer(team) == IF team \in DOMAIN renames THEN renames[team] ELSE team

apply_renames(col) == [k \in 1..Len(col) |-> renamer(col[k])]

----------------------------------------------------------------------------
(* get_matches *)

\* mutant: a tie counted as a win of team1
winner_from_score_diff_ge(x) ==
    IF x >= 0 THEN 1
    ELSE IF x < 0 THEN 2
    ELSE 0

winner_from_score_diff(x) ==
    IF x > 0 THEN 1
    ELSE IF x < 0 THEN 2
    ELSE 0

\* matches[column] = apply_renames(matches[column]) for team1 and team2
renamed_matches ==
    LET raw == raw_matches_file
        t1  == apply_renames([k \in 1..Len(raw) |-> raw[k].team1])
        t2  == apply_renames([k \in 1..Len(raw) |-> raw[k].team2])
    IN  [k \in 1..Len(raw) |->
            [raw[k] EXCEPT !.team1 = t1[k], !.team2 = t2[k]]]

\* matches2: the copy with team1/team2 and score1/score2 renamed into each
\* other and the index shifted by id_offset
reversed_matches(matches) ==
    LET id_offset == Len(matches)
    IN  [k \in 1..Len(matches) |->
            [id     |-> matches[k].id + id_offset,
             team1  |-> matches[k].team2,
             team2  |-> matches[k].team1,
             score1 |-> matches[k].score2,
             score2 |-> matches[k].score1,
             year   |-> matches[k].year]]

with_winner(matches) ==
    [k \in 1..Len(matches) |->
        LET score_diff == matches[k].score1 - matches[k].score2
        IN  matches[k] @@ [score_diff |-> score_diff,
                           winner     |-> winner_from_score_diff(score_diff)]]

\* mutant: only the wins of team1 kept
without_ties_team1_wins(matches) == SelectSeq(matches, LAMBDA m : m.winner = 1)

without_ties(matches) == SelectSeq(matches, LAMBDA m : m.winner # 0)

StatColumns(s) ==
    [matches_played      |-> s.matches_played,
     matches_won         |-> s.matches_won,
     years_played        |-> s.years_played,
     podium_score        |-> s.podium_score,
     cups_won            |-> s.cups_won,
     matches_won_percent |-> s.matches_won_percent,
     podium_score_yearly |-> s.podium_score_yearly,
     cups_won_yearly     |-> s.cups_won_yearly]

StatColumns_2(s) ==
    [matches_played_2      |-> s.matches_played,
     matches_won_2         |-> s.matches_won,
     years_played_2        |-> s.years_played,
     podium_score_2        |-> s.podium_score,
     cups_won_2            |-> s.cups_won,
     matches_won_percent_2 |-> s.matches_won_percent,
     podium_score_yearly_2 |-> s.podium_score_yearly,
     cups_won_yearly_2     |-> s.cups_won_yearly]

MissingStats == [c \in {"matches_played", "matches_won", "years_played",
                        "podium_score", "cups_won", "matches_won_percent",
                        "podium_score_yearly", "cups_won_yearly"} |-> NaN]

\* stats.loc[key] of a left join: the row of the key, or missing values
lookup(stats, key) == IF key \in DOMAIN stats THEN stats[key] ELSE MissingStats

\* matches.join(stats, on='team1').join(stats, on='team2', rsuffix='_2')
join_stats(matches, stats) ==
    [k \in 1..Len(matches) |->
        matches[k] @@ StatColumns(lookup(stats, matches[k].team1))
                   @@ StatColumns_2(lookup(stats, matches[k].team2))]

get_winners ==
    LET raw  == raw_winners_file
        team == apply_renames([k \in 1..Len(raw) |-> raw[k].team])
    IN  [k \in 1..Len(raw) |-> [raw[k] EXCEPT !.team = team[k]]]

RECURSIVE get_matches(_, _, _)

\* mutant: the teams of the left side only
team_set_team1(matches) == {matches[k].team1 : k \in 1..Len(matches)}

team_set(matches) ==
    {matches[k].team1 : k \in 1..Len(matches)} \cup
    {matches[k].team2 : k \in 1..Len(matches)}

RECURSIVE SumSeq(_)
SumSeq(s) == IF s = <<>> THEN 0 ELSE Head(s) + SumSeq(Tail(s))

to_score(position) == 2 ^ (5 - position)

\* mutant: a tie counted as a win
left_win_or_tie(team, m) == m.team1 = team /\ m.score1 >= m.score2

left_win(team, m)  == m.team1 = team /\ m.score1 > m.score2

right_win(team, m) == m.team2 = team /\ m.score2 > m.score1

team_base_stats(team, matches, winners) ==
    LET team_matches == SelectSeq(matches,
                            LAMBDA m : m.team1 = team \/ m.team2 = team)
        wins1 == SelectSeq(team_matches, LAMBDA m : left_win(team, m))
        wins2 == SelectSeq(team_matches, LAMBDA m : right_win(team, m))
        team_podiums == SelectSeq(winners, LAMBDA w : w.team = team)
    IN  [matches_played |-> Float(Len(team_matches)),
         matches_won    |-> Float(Len(wins1) + Len(wins2)),
         years_played   |-> Float(Cardinality(
                              {team_matches[k].year : k \in 1..Len(team_matches)})),
         podium_score   |-> Float(SumSeq(
                              [k \in 1..Len(team_podiums) |->
                                  to_score(team_podiums[k].position)])),
         cups_won       |-> Float(Len(SelectSeq(team_podiums,
                              LAMBDA w : w.position = 1)))]

with_rates(s) ==
    s @@ [matches_won_percent |->
              Mul(Div(s.matches_won, s.matches_played), Float(100)),
          podium_score_yearly |-> Div(s.podium_score, s.years_played),
          cups_won_yearly     |-> Div(s.cups_won, s.years_played)]

\* mutant: the stats computed from the matches duplicated with reversed rows
get_team_stats_duplicated ==
    LET winners == get_winners
        matches == get_matches(FALSE, TRUE, FALSE)
        teams   == team_set(matches)
    IN  [team \in teams |-> with_rates(team_base_stats(team, matches, winners))]

get_team_stats ==
    LET winners == get_winners
        matches == get_matches(FALSE, FALSE, FALSE)
        teams   == team_set(matches)
    IN  [team \in teams |-> with_rates(team_base_stats(team, matches, winners))]

get_matches(with_team_stats, duplicate_with_reversed, exclude_ties) ==
    LET matches1 == renamed_matches
        matches2 == IF duplicate_with_reversed
                    THEN matches1 \o reversed_matches(matches1)
                    ELSE matches1
        matches3 == with_winner(matches2)
        matches4 == IF exclude_ties THEN without_ties(matches3) ELSE matches3
    IN  IF with_team_stats
        THEN join_stats(matches4, get_team_stats)
        ELSE matches4

----------------------------------------------------------------------------
(* extract_samples *)

\* matches.loc[i, feature]: the cell when the label i is unique in the index,
\* a Series of the cells of every row labelled i when it is not
Scalar(v) == [scalar |-> v]

Series(vs) == [series |-> vs]

loc(matches, label, feature) ==
    LET rows == SelectSeq(matches, LAMBDA m : m.id = label)
    IN  IF Len(rows) = 1
        THEN Scalar(rows[1][feature])
        ELSE Series([k \in 1..Len(rows) |-> rows[k][feature]])

extract_samples(matches, origin_features, result_feature) ==
    LET ins  == [k \in 1..Len(matches) |->
                    [j \in 1..Len(origin_features) |->
                        loc(matches, matches[k].id, origin_features[j])]]
        outs == [k \in 1..Len(matches) |-> matches[k][result_feature]]
    IN  <<ins, outs>>

----------------------------------------------------------------------------
(* split_samples *)

\* mutant: random() <= percent
to_first_le(r, p) == r <= p

\* random() < percent, both in units of 1/Resolution
to_first(r, p) == r < p

\* mutant: rows inserted at the front of the lists
split_row_prepend(lists, inputs_row, outputs_row, r, p) ==
    IF r < p
    THEN [lists EXCEPT !.inputs1  = <<inputs_row>> \o @,
                       !.outputs1 = <<outputs_row>> \o @]
    ELSE [lists EXCEPT !.inputs2  = <<inputs_row>> \o @,
                       !.outputs2 = <<outputs_row>> \o @]

\* one iteration of the loop over enumerate(inputs), with r the value random()
\* returned
split_row(lists, inputs_row, outputs_row, r, p) ==
    IF to_first(r, p)
    THEN [lists EXCEPT !.inputs1  = Append(@, inputs_row),
                       !.outputs1 = Append(@, outputs_row)]
    ELSE [lists EXCEPT !.inputs2  = Append(@, inputs_row),
                       !.outputs2 = Append(@, outputs_row)]

----------------------------------------------------------------------------
(* Inputs *)

NoSplit ==
    /\ inputs = <<>> /\ outputs = <<>> /\ percent = 0 /\ i = 0
    /\ inputs1 = <<>> /\ outputs1 = <<>> /\ inputs2 = <<>> /\ outputs2 = <<>>
    /\ draws = <<>>

NoFiles ==
    /\ team_renames_file = <<>>
    /\ raw_matches_file = <<>>
    /\ raw_winners_file = <<>>

NoCall == call = [op |-> "none"] /\ result = <<>>

\* the index of the raw matches: unique ids, the first one in `starts`, each
\* following one larger by a gap in `gaps`
IdLists(n, starts, gaps) ==
    {ids \in [1..n -> 0..(Max(starts) + n * Max(gaps))] :
        /\ n > 0 => ids[1] \in starts
        /\ \A k \in 1..(n - 1) : ids[k + 1] - ids[k] \in gaps}

\* the raw matches tables of up to MaxRows rows, the scores of a row drawn
\* from the pairs `results`
MatchFiles(years, starts, gaps, results) ==
    UNION {{[k \in 1..n |->
                [id |-> ids[k], team1 |-> sides[k][1], team2 |-> sides[k][2],
                 score1 |-> scores[k][1], score2 |-> scores[k][2],
                 year |-> played[k]]] :
                sides \in [1..n -> RawNames \X RawNames],
                scores \in [1..n -> results],
                played \in [1..n -> years],
                ids \in IdLists(n, starts, gaps)} : n \in 0..MaxRows}

RenameFiles == {<<>>, << <<"B", "A">> >>, << <<"A", "B">>, <<"B", "A">> >>}

LongWinnerFile ==
    << [team |-> "A", year |-> 2000, position |-> 2],
       [team |-> "B", year |-> 2001, position |-> 1],
       [team |-> "A", year |-> 2001, position |-> 4] >>

WinnerFiles ==
    {<<>>, << [team |-> "B", year |-> 2000, position |-> 1] >>, LongWinnerFile}

FeatureLists == {<<"score1">>, <<"team1", "team2">>, <<"year", "score2">>}

----------------------------------------------------------------------------
(* SpecMatches: one call of get_matches *)

InitMatches ==
    /\ team_renames_file \in RenameFiles
    /\ raw_matches_file \in MatchFiles({2000}, {0}, {1}, Scores \X Scores)
    /\ raw_winners_file \in WinnerFiles
    /\ NoCall /\ NoSplit /\ column = <<>>

GetMatches ==
    /\ call.op = "none"
    /\ \E w \in BOOLEAN, d \in BOOLEAN, e \in BOOLEAN :
        /\ call' = [op |-> "get_matches", with_team_stats |-> w,
                    duplicate_with_reversed |-> d, exclude_ties |-> e]
        /\ result' = get_matches(w, d, e)
    /\ UNCHANGED <<files, split, column>>

SpecMatches == InitMatches /\ [][GetMatches]_vars

----------------------------------------------------------------------------
(* SpecIds: get_matches and extract_samples on raw matches whose ids have  *)
(* gaps                                                                    *)

InitIds ==
    /\ team_renames_file = <<>>
    /\ raw_matches_file \in MatchFiles({2000}, {0, 1}, IdGaps, Scores \X Scores)
    /\ raw_winners_file = <<>>
    /\ NoCall /\ NoSplit /\ column = <<>>

ExtractSamples ==
    /\ call.op = "none"
    /\ \E d \in BOOLEAN, e \in BOOLEAN, origin_features \in FeatureLists,
          result_feature \in {"winner", "score_diff"} :
        LET matches == get_matches(FALSE, d, e)
        IN  /\ call' = [op |-> "extract_samples", matches |-> matches,
                        origin_features |-> origin_features,
                        result_feature |-> result_feature]
            /\ result' = extract_samples(matches, origin_features, result_feature)
    /\ UNCHANGED <<files, split, column>>

NextIds == GetMatches \/ ExtractSamples

SpecIds == InitIds /\ [][NextIds]_vars

----------------------------------------------------------------------------
(* SpecStats: one call of get_team_stats *)

InitStats ==
    /\ team_renames_file \in RenameFiles
    /\ raw_matches_file \in MatchFiles(Years, {0}, {1}, Results)
    /\ raw_winners_file \in {<<>>, LongWinnerFile}
    /\ NoCall /\ NoSplit /\ column = <<>>

GetTeamStats ==
    /\ call.op = "none"
    /\ call' = [op |-> "get_team_stats"]
    /\ result' = get_team_stats
    /\ UNCHANGED <<files, split, column>>

SpecStats == InitStats /\ [][GetTeamStats]_vars

----------------------------------------------------------------------------
(* SpecRenames: one call of apply_renames *)

InitRenames ==
    /\ team_renames_file \in SeqsUpTo(RawNames \X Canonical, MaxLines)
    /\ raw_matches_file = <<>>
    /\ raw_winners_file = <<>>
    /\ column \in SeqsUpTo(Canonical, MaxColumn)
    /\ NoCall /\ NoSplit

ApplyRenames ==
    /\ call.op = "none"
    /\ call' = [op |-> "apply_renames"]
    /\ result' = apply_renames(column)
    /\ UNCHANGED <<files, split, column>>

SpecRenames == InitRenames /\ [][ApplyRenames]_vars

----------------------------------------------------------------------------
(* SpecSplit: one call of split_samples, an iteration of its loop at a time *)

InitSplit ==
    /\ NoFiles /\ NoCall /\ column = <<>>
    /\ \E n \in 0..MaxLen :
        /\ inputs \in [1..n -> {"p", "q"}]
        /\ outputs \in [1..n -> {0, 1}]
    /\ percent \in 0..Resolution
    /\ i = 0
    /\ inputs1 = <<>> /\ outputs1 = <<>> /\ inputs2 = <<>> /\ outputs2 = <<>>
    /\ draws = <<>>

SplitIteration ==
    /\ call.op = "none"
    /\ i < Len(inputs)
    /\ \E r \in 0..(Resolution - 1) :
        LET lists == split_row([inputs1 |-> inputs1, outputs1 |-> outputs1,
                                inputs2 |-> inputs2, outputs2 |-> outputs2],
                               inputs[i + 1], outputs[i + 1], r, percent)
        IN  /\ inputs1' = lists.inputs1
            /\ outputs1' = lists.outputs1
            /\ inputs2' = lists.inputs2
            /\ outputs2' = lists.outputs2
            /\ draws' = Append(draws, r)
    /\ i' = i + 1
    /\ UNCHANGED <<files, call, result, inputs, outputs, percent, column>>

SplitReturn ==
    /\ call.op = "none"
    /\ i = Len(inputs)
    /\ call' = [op |-> "split_samples"]
    /\ result' = <<inputs1, outputs1, inputs2, outputs2>>
    /\ UNCHANGED <<files, split, column>>

NextSplit == SplitIteration \/ SplitReturn

SpecSplit == InitSplit /\ [][NextSplit]_vars

----------------------------------------------------------------------------
(* Properties *)

Rows(t) == 1..Len(t)

IsCall(op) == call.op = op

\* the team names of the raw matches after renaming, and per team the rows it
\* plays in, the rows it wins and the years it plays in, counted on the raw
\* matches file itself
RawTeam1(k) == renamer(raw_matches_file[k].team1)

RawTeam2(k) == renamer(raw_matches_file[k].team2)

RawTeams == {RawTeam1(k) : k \in Rows(raw_matches_file)} \cup
            {RawTeam2(k) : k \in Rows(raw_matches_file)}

PlayedRows(team) ==
    {k \in Rows(raw_matches_file) : RawTeam1(k) = team \/ RawTeam2(k) = team}

WonRows(team) ==
    {k \in PlayedRows(team) :
        \/ RawTeam1(k) = team /\
             raw_matches_file[k].score1 > raw_matches_file[k].score2
        \/ RawTeam2(k) = team /\
             raw_matches_file[k].score2 > raw_matches_file[k].score1}

PlayedYears(team) == {raw_matches_file[k].year : k \in PlayedRows(team)}

StatNames == {"matches_played", "matches_won", "years_played", "podium_score",
              "cups_won", "matches_won_percent", "podium_score_yearly",
              "cups_won_yearly"}

StatNames_2 == {"matches_played_2", "matches_won_2", "years_played_2",
                "podium_score_2", "cups_won_2", "matches_won_percent_2",
                "podium_score_yearly_2", "cups_won_yearly_2"}

\* C1: get_matches(duplicate_with_reversed=True) returns twice the rows of the
\* raw table and the ids of its rows are pairwise distinct.
C1_DuplicatedIdsDistinct ==
    (IsCall("get_matches") /\ call.duplicate_with_reversed
        /\ ~call.exclude_ties /\ ~call.with_team_stats) =>
        /\ Len(result) = 2 * Len(raw_matches_file)
        /\ \A j, k \in Rows(result) : j # k => result[j].id # result[k].id

\* C2: in every row get_matches returns, score_diff = score1 - score2 and
\* winner is 1, 2, 0 exactly when score1 is greater than, less than, equal to
\* score2.
C2_WinnerMatchesScores ==
    IsCall("get_matches") =>
        \A k \in Rows(result) :
            /\ result[k].score_diff = result[k].score1 - result[k].score2
            /\ result[k].winner = 1 <=> result[k].score1 > result[k].score2
            /\ result[k].winner = 2 <=> result[k].score1 < result[k].score2
            /\ result[k].winner = 0 <=> result[k].score1 = result[k].score2

C2_Witness ==
    /\ IsCall("get_matches") /\ call.duplicate_with_reversed
    /\ \E j, k, l \in Rows(result) :
        /\ result[j].winner = 1 /\ result[k].winner = 2 /\ result[l].winner = 0
        /\ k > Len(raw_matches_file)

\* C3: with exclude_ties the result has no row with winner = 0 and is the
\* result of the same call without exclude_ties, less its rows with
\* winner = 0, in the same order.
C3_ExcludeTies ==
    (IsCall("get_matches") /\ call.exclude_ties) =>
        /\ \A k \in Rows(result) : result[k].winner # 0
        /\ result = SelectSeq(get_matches(call.with_team_stats,
                                          call.duplicate_with_reversed, FALSE),
                              LAMBDA m : m.winner # 0)

C3_Witness ==
    /\ IsCall("get_matches") /\ call.exclude_ties
    /\ call.with_team_stats /\ call.duplicate_with_reversed
    /\ Len(result) = 2
    /\ Len(raw_matches_file) = 2
    /\ raw_matches_file[1].score1 = raw_matches_file[1].score2

\* C4: for every team of get_team_stats, matches_played counts the match rows
\* with the team on either side, matches_won those of them the team's score
\* strictly wins, years_played their distinct years.
C4_TeamCounts ==
    IsCall("get_team_stats") =>
        \A team \in DOMAIN result :
            /\ result[team].matches_played = Float(Cardinality(PlayedRows(team)))
            /\ result[team].matches_won = Float(Cardinality(WonRows(team)))
            /\ result[team].years_played = Float(Cardinality(PlayedYears(team)))

C4_Witness ==
    /\ IsCall("get_team_stats")
    /\ "A" \in DOMAIN result
    /\ result["A"].matches_played = Float(2)
    /\ result["A"].matches_won = Float(1)
    /\ result["A"].years_played = Float(2)
    /\ \E k \in Rows(raw_matches_file) :
          raw_matches_file[k].score1 = raw_matches_file[k].score2

\* C5: split_samples returns inputs and outputs cut along one set of indices:
\* the first two lists are the elements at those indices, the last two the
\* elements at the other indices, each in the original order.
Sub(s, S) ==
    LET picked == SelectSeq([k \in Rows(s) |-> k], LAMBDA k : k \in S)
    IN  [j \in Rows(picked) |-> s[picked[j]]]

C5_SplitIsPartition ==
    IsCall("split_samples") =>
        /\ \E S \in SUBSET Rows(inputs) :
              result = <<Sub(inputs, S), Sub(outputs, S),
                         Sub(inputs, Rows(inputs) \ S),
                         Sub(outputs, Rows(inputs) \ S)>>
        /\ Len(result[1]) + Len(result[3]) = Len(inputs)
        /\ Len(result[1]) = Len(result[2])
        /\ Len(result[3]) = Len(result[4])

C5_Witness ==
    /\ IsCall("split_samples")
    /\ Len(inputs) = 3
    /\ inputs[1] # inputs[3] /\ outputs[1] # outputs[3]
    /\ Len(result[1]) = 2 /\ result[1][1] = inputs[1] /\ result[1][2] = inputs[3]
    /\ Len(result[3]) = 1

\* C6: with percent = 1.0 split_samples returns every pair in the first subset,
\* with percent = 0.0 every pair in the second, whatever random() returns.
C6_SplitExtremes ==
    IsCall("split_samples") =>
        /\ percent = Resolution =>
              result = <<inputs, outputs, <<>>, <<>> >>
        /\ percent = 0 =>
              result = << <<>>, <<>>, inputs, outputs>>

C6_Witness ==
    /\ IsCall("split_samples")
    /\ percent = 0
    /\ Len(inputs) = 3
    /\ \E k \in Rows(draws) : draws[k] = 0
    /\ \E k \in Rows(draws) : draws[k] # 0

\* C7: extract_samples returns one tuple and one output per row of the table,
\* the k-th tuple holding the k-th row's own cells of origin_features in
\* order, the k-th output the k-th row's result_feature.
C7_SamplesAreRows ==
    IsCall("extract_samples") =>
        /\ Len(result[1]) = Len(call.matches)
        /\ Len(result[2]) = Len(call.matches)
        /\ \A k \in Rows(call.matches) :
            /\ result[2][k] = call.matches[k][call.result_feature]
            /\ Len(result[1][k]) = Len(call.origin_features)
            /\ \A j \in Rows(call.origin_features) :
                  result[1][k][j] =
                      Scalar(call.matches[k][call.origin_features[j]])

\* C8: apply_renames returns a column of the same length in which a value that
\* is a key of the renames table is replaced by the value the table gives it,
\* looked up once, and any other value is unchanged.
LinesOf(key) ==
    {k \in Rows(team_renames_file) : team_renames_file[k][1] = key}

C8_RenamesExactLookup ==
    IsCall("apply_renames") =>
        /\ Len(result) = Len(column)
        /\ \A k \in Rows(column) :
              IF LinesOf(column[k]) # {}
              THEN result[k] = team_renames_file[Max(LinesOf(column[k]))][2]
              ELSE result[k] = column[k]

C8_Witness ==
    /\ IsCall("apply_renames")
    /\ team_renames_file = << <<"A", "B">>, <<"B", "X">> >>
    /\ column = <<"A", "X">>
    /\ result = <<"B", "X">>

\* C9: get_team_stats has exactly the renamed team names of the matches as its
\* rows, each with matches_played >= 1 and years_played >= 1, so none of the
\* three divisions divides by zero.
C9_OneRowPerTeam ==
    IsCall("get_team_stats") =>
        /\ DOMAIN result = RawTeams
        /\ \A team \in DOMAIN result :
            /\ result[team].matches_played.den = 1
            /\ result[team].matches_played.num >= 1
            /\ result[team].years_played.den = 1
            /\ result[team].years_played.num >= 1
            /\ result[team].matches_won_percent.den # 0
            /\ result[team].podium_score_yearly.den # 0
            /\ result[team].cups_won_yearly.den # 0

C9_Witness ==
    /\ IsCall("get_team_stats")
    /\ DOMAIN result = {"A", "B"}
    /\ team_renames_file # <<>>
    /\ \A k \in Rows(raw_matches_file) : RawTeam1(k) = "A"
    /\ result["B"].podium_score.num > 0

====
